---- MODULE Spec2Model ----
(***************************************************************************)
(* Streaming chat proxy with cancellation (Cloudflare Worker).             *)
(*                                                                         *)
(* The model follows the converged worker in src/unnamed/part_004:         *)
(*   fetch -> checkRateLimit -> handlePostChat -> (tee, drain, persist)    *)
(*   fetch -> handlePostCancel                                             *)
(*   fetch -> handleGetHistory                                             *)
(* Every action is one run of the handler between two suspension points    *)
(* (await) of the single-threaded event loop.                              *)
(*                                                                         *)
(* Text is a sequence of characters over {"a", "E", "R"}: an ASCII         *)
(* character, a two-byte character and U+FFFD.  Bytes are "a" (ASCII),     *)
(* "L" (lead byte of the two-byte character) and "T" (its continuation     *)
(* byte).  Message timestamps are left out: no handler reads them back.    *)
(***************************************************************************)
EXTENDS Integers, Sequences, FiniteSets, TLC

\* ------------------------------------------------------------------ bounds
MaxTurns == 2
MaxChunks == 2
\* the clock is observed up to this many milliseconds
MaxTime == 4000
\* the trimmer is applied to lists of up to MaxMsgs messages and budgets up to MaxBudget
MaxMsgs == 3
MaxBudget == 3
MaxSends == 3
MaxCancels == 2
MaxCap == 2

\* ------------------------------------------------- environment (env vars)
\* Number(env.RATE_LIMIT_WINDOW_SEC ?? 60), Number(env.RATE_LIMIT_MAX_REQUESTS ?? 30)
RATE_LIMIT_WINDOW_SEC == 2
RATE_LIMIT_MAX_REQUESTS == 2
\* const windowMs = windowSec * 1000
MsPerSec == 1000
windowMs == RATE_LIMIT_WINDOW_SEC * MsPerSec

Turns == 1..MaxTurns
NoId == "NULL"
SuppliedIds == {"c1"}
\* what a client may send as body.conversationId
RequestIds == {NoId, "", "null"} \cup SuppliedIds
\* the n-th result of uuidv4(): each call yields an id never produced before
UuidNames == <<"u1", "u2", "u3", "u4">>
\* a generator that hands out the same id on every call
UuidStuck(n) == UuidNames[1]
Uuid(n) == UuidNames[n]
MintedIds == {Uuid(n) : n \in 1..MaxTurns}
ConvIds == SuppliedIds \cup MintedIds
ClientKeys == {"ip1"}
\* the calls of sendMessage that get past its guard, in the order they are made
Sends == 1..MaxSends
\* values of env.RATE_LIMIT_MAX_REQUESTS
Caps == 0..MaxCap
\* shapes of body.messages: a well-formed last user message, a missing or
\* empty array, a last message of another role, a blank user message
BodyKinds == {"valid", "empty", "notUser", "blank"}
UserTexts == {<<"a">>}
ByteChunks == {<<"a">>, <<"L">>, <<"T">>}

VARIABLES
    pc,                 \* position of each chat request in fetch/handlePostChat
    status,             \* HTTP status returned for the chat request (0: none yet)
    conv,               \* conversationId resolved by handlePostChat
    history,            \* const history = await readHistory(...)
    userMessage,        \* userMessage.content
    aborted,            \* controller.signal.aborted of the turn's AbortController
    src,                \* state of llmResponse.body (the provider stream)
    delivered,          \* chunks the tee has enqueued on both branches
    savePos,            \* chunks read from streamForSaving
    content,            \* fullAiResponseContent
    isInterrupted,      \* isInterrupted
    activeControllers,  \* Map<string, AbortController>, a controller named by its turn
    kv,                 \* env.CHAT_HISTORY
    rateLimitMap,       \* Map<string, {windowStart, count}>
    now,                \* Date.now(), in milliseconds
    nextUuid,           \* number of ids uuidv4() has produced
    lastCancel,         \* status of the last response of handlePostCancel (0: none yet)
    putResult,          \* outcome of the turn's env.CHAT_HISTORY.put: "none", "ok", "failed"
    before,             \* history record: transcript stored when the turn was registered
    concurrent,         \* history record: the turn overlapped another turn of its id
    invocations,        \* number of calls of env.AI.run the turn has made
    lastHistory,        \* the last response of handleGetHistory (status 0: none yet)
    lastRateLimit,      \* the last result of checkRateLimit (retryAfterSec -1: undefined)
    trimPc,             \* how often trimMessagesToTokenLimit has been applied
    messages,           \* its argument messages
    maxTokens,          \* its argument maxTokens
    trimmed,            \* trimMessagesToTokenLimit(messages, maxTokens)
    retrimmed,          \* trimMessagesToTokenLimit(trimmed, maxTokens)
    maxRequests,        \* Number(env.RATE_LIMIT_MAX_REQUESTS ?? 30)
    lastPreflight,      \* status of the last response to an OPTIONS request (0: none yet)
    promptPc,           \* how far the message list of a turn has been built
    stored,             \* the transcript readHistory returned
    lastMsgContent,     \* lastMsg.content of the request body
    webSearchEnabled,   \* body.options?.webSearchEnabled === true
    configuredMaxContextTokens, \* Number(env.MAX_CONTEXT_TOKENS ?? 4000)
    messagesForAI,      \* messagesForAI after the push of the user message
    sentMessages,       \* messagesForAI as handed to env.AI.run
    isProcessing,       \* chat.js: isProcessing
    currentConversationId, \* chat.js: currentConversationId
    clientPc,           \* chat.js: position of each call of sendMessage
    chunksRead,         \* chat.js: chunks each call of sendMessage has appended
    cancelsPending      \* chat.js: calls of stopGenerating awaiting their fetch

trimVars == <<trimPc, messages, maxTokens, trimmed, retrimmed>>
routerVars == <<maxRequests, lastPreflight>>
promptVars == <<promptPc, stored, lastMsgContent, webSearchEnabled,
                configuredMaxContextTokens, messagesForAI, sentMessages>>
clientVars == <<isProcessing, currentConversationId, clientPc, chunksRead, cancelsPending>>
restVars == <<routerVars, promptVars, clientVars>>

vars == <<pc, status, conv, history, userMessage, aborted, src,
          delivered, savePos, content, isInterrupted,
          activeControllers, kv, rateLimitMap, lastRateLimit, now, nextUuid, lastCancel,
          putResult, before, concurrent, invocations, lastHistory, trimVars, restVars>>

turnVars == <<history, userMessage, src, delivered, savePos, content, isInterrupted>>

\* ------------------------------------------------------------ pure helpers
RECURSIVE Flatten(_)
Flatten(chunks) ==
    IF chunks = <<>> THEN <<>> ELSE Head(chunks) \o Flatten(Tail(chunks))

\* TextDecoder.decode(value) on one buffer, without {stream: true}: an
\* incomplete or stray byte sequence becomes U+FFFD inside this very call.
RECURSIVE TextDecode(_)
TextDecode(bytes) ==
    IF bytes = <<>> THEN <<>>
    ELSE IF Head(bytes) = "a" THEN <<"a">> \o TextDecode(Tail(bytes))
    ELSE IF Head(bytes) = "L" /\ Len(bytes) >= 2 /\ bytes[2] = "T"
         THEN <<"E">> \o TextDecode(SubSeq(bytes, 3, Len(bytes)))
    ELSE <<"R">> \o TextDecode(Tail(bytes))

\* fullAiResponseContent += decoder.decode(value)
Accumulate(acc, value) == acc \o TextDecode(value)

\* JSON.stringify(history) / JSON.parse(historyJson)
JSONstringify(h) == [present |-> TRUE, json |-> h]
JSONparse(s) == s.json

\* env.CHAT_HISTORY.get(id) === null
Missing == [present |-> FALSE, json |-> <<>>]
\* activeControllers.get(id) === undefined
NoController == 0

\* the transcript a successful read of the store returns for id
Stored(store, id) ==
    IF id \in DOMAIN store /\ store[id] # Missing THEN JSONparse(store[id]) ELSE <<>>

\* readHistory: [] on a missing key and on any failure of get/parse
readHistory(store, id, getOk) ==
    IF id = "" THEN <<>>
    ELSE IF getOk /\ store[id] # Missing THEN JSONparse(store[id])
    ELSE <<>>

UserMsg(text) == [role |-> "user", content |-> text]
AiMsg(text, intr) == [role |-> "assistant", content |-> text, interrupted |-> intr]

\* a handler that persists the list it sent to the model, system prompt
\* included, followed by the assistant message
UpdatedHistoryWithPrompt(h, userText, aiText, intr) ==
    <<[role |-> "system", content |-> <<"a">>]>> \o h \o
        <<UserMsg(userText), AiMsg(aiText, intr)>>

\* const updatedHistory = [...history, userMessage, aiMessage]
UpdatedHistory(h, userText, aiText, intr) ==
    h \o <<UserMsg(userText), AiMsg(aiText, intr)>>

\* oldConversationId && oldConversationId !== 'null' ? oldConversationId : uuidv4()
NeedsNewId(oldConversationId) ==
    oldConversationId = NoId \/ oldConversationId = "" \/ oldConversationId = "null"

\* a generation is in flight from the registration of its controller until
\* its request fails or its stream has finished draining
InFlight(t) == pc[t] \in {"readHistory", "awaitModel1", "awaitModel2", "draining"}
\* the turn has been registered and has not yet finished its store write
Active(t) == pc[t] \in {"readHistory", "awaitModel1", "awaitModel2", "draining", "saving"}

\* ------------------------------------------------------------ rate limiter
RateRecord(key) == rateLimitMap[key]
NoRecord == [windowStart |-> -1, count |-> 0]

\* a window that is still active at exactly windowMs after its start
WindowExpiredStrict(key) ==
    \/ RateRecord(key) = NoRecord
    \/ now - RateRecord(key).windowStart > windowMs

\* !record || now - record.windowStart >= windowMs
WindowExpired(key) ==
    \/ RateRecord(key) = NoRecord
    \/ now - RateRecord(key).windowStart >= windowMs

RateAllowed(key) ==
    WindowExpired(key) \/ RateRecord(key).count < maxRequests

checkRateLimit(key) ==
    IF WindowExpired(key)
    THEN rateLimitMap' = [rateLimitMap EXCEPT ![key] = [windowStart |-> now, count |-> 1]]
    ELSE IF RateRecord(key).count < maxRequests
    THEN rateLimitMap' = [rateLimitMap EXCEPT ![key].count = @ + 1]
    ELSE UNCHANGED rateLimitMap

\* what a client may send as the id parameter of GET /api/history
HistoryIds == {NoId, ""} \cup ConvIds

NoHistoryResponse == [status |-> 0, conversationId |-> NoId, history |-> <<>>]

\* Math.ceil(x / d) on integers
CeilDiv(x, d) == -((-x) \div d)

\* a Retry-After that rounds the remaining time down
retryAfterSecFloor(key) ==
    (RateRecord(key).windowStart + windowMs - now) \div MsPerSec

\* const retryAfterSec = Math.ceil((record.windowStart + windowMs - now) / 1000)
retryAfterSec(key) ==
    CeilDiv(RateRecord(key).windowStart + windowMs - now, MsPerSec)

\* the value checkRateLimit returns: {allowed: true} or {allowed: false, retryAfterSec}
RateLimitResult(key) ==
    IF RateAllowed(key)
    THEN [allowed |-> TRUE, retryAfterSec |-> -1]
    ELSE [allowed |-> FALSE, retryAfterSec |-> retryAfterSec(key)]

\* ---------------------------------------------------------------- trimmer
\* a ChatMessage: a role and a content, the content a sequence of characters
Roles == {"system", "user", "assistant"}
Contents == {<<>>, <<"a">>, <<"b", "b", "b", "b", "b">>}
ChatMessages == [role : Roles, content : Contents]
RECURSIVE ListsUpTo(_)
ListsUpTo(n) ==
    IF n = 0 THEN {<<>>}
    ELSE ListsUpTo(n - 1) \cup
         {Append(l, m) : l \in {k \in ListsUpTo(n - 1) : Len(k) = n - 1}, m \in ChatMessages}
MessageLists == ListsUpTo(MaxMsgs)
Budgets == 0..MaxBudget

\* 4 characters count as one token
CharsPerToken == 4

\* messages.reduce((sum, m) => sum + m.content.length, 0)
RECURSIVE TotalChars(_)
TotalChars(ms) ==
    IF ms = <<>> THEN 0 ELSE Len(Head(ms).content) + TotalChars(Tail(ms))

\* Math.ceil(totalChars / 4)
estimateTokensFromMessages(ms) == CeilDiv(TotalChars(ms), CharsPerToken)

IsSystem(m) == m.role = "system"
NotSystem(m) == m.role # "system"
\* messages.filter(m => m.role === 'system'), messages.filter(m => m.role !== 'system')
SystemMessages(ms) == SelectSeq(ms, IsSystem)
NonSystem(ms) == SelectSeq(ms, NotSystem)

\* a loop that drops the newest non-system message: nonSystem.pop()
RECURSIVE PopWhileOver(_, _, _)
PopWhileOver(sys, non, max) ==
    IF Len(non) > 0 /\ estimateTokensFromMessages(sys \o non) > max
    THEN PopWhileOver(sys, SubSeq(non, 1, Len(non) - 1), max)
    ELSE non

\* while (nonSystem.length > 0 && estimate([...systemMessages, ...nonSystem]) > maxTokens)
\*     nonSystem.shift()
RECURSIVE ShiftWhileOver(_, _, _)
ShiftWhileOver(sys, non, max) ==
    IF Len(non) > 0 /\ estimateTokensFromMessages(sys \o non) > max
    THEN ShiftWhileOver(sys, Tail(non), max)
    ELSE non

\* a trimmer without the early return, whose loop body runs at least once
trimShiftFirst(ms, max) ==
    SystemMessages(ms) \o
        ShiftWhileOver(SystemMessages(ms),
                       IF NonSystem(ms) = <<>> THEN <<>> ELSE Tail(NonSystem(ms)), max)

\* a trimmer that drops the oldest message whatever its role
RECURSIVE trimAnyRole(_, _)
trimAnyRole(ms, max) ==
    IF Len(ms) > 0 /\ estimateTokensFromMessages(ms) > max
    THEN trimAnyRole(Tail(ms), max)
    ELSE ms

trimMessagesToTokenLimit(ms, max) ==
    IF estimateTokensFromMessages(ms) <= max THEN ms
    ELSE SystemMessages(ms) \o ShiftWhileOver(SystemMessages(ms), NonSystem(ms), max)

\* ------------------------------------------------------------ message list
\* const BASE_SYSTEM_PROMPT = "You are a helpful, friendly assistant. ..."
BASE_SYSTEM_PROMPT == <<"s", "s">>
\* " You may use web search or external knowledge if available ..."
WebSearchPrompt == <<"w">>
\* the note appended to a system message the transcript already holds
WebSearchNote == <<"n">>

\* contents of stored messages and of the last message of a request body
StoredContents == {<<"a">>, <<"b", "b", "b", "b", "b">>}
RawUserTexts == {<<"a">>, <<" ", "a", " ">>, <<"b", "b", "b", "b", "b">>}
\* a Message of a stored ConversationHistory
StoredMessages ==
    {UserMsg(c) : c \in StoredContents}
        \cup {AiMsg(c, i) : c \in StoredContents, i \in BOOLEAN}
        \cup {[role |-> "system", content |-> c] : c \in StoredContents}
RECURSIVE StoredUpTo(_)
StoredUpTo(n) ==
    IF n = 0 THEN {<<>>}
    ELSE StoredUpTo(n - 1) \cup
         {Append(l, m) : l \in {k \in StoredUpTo(n - 1) : Len(k) = n - 1}, m \in StoredMessages}
StoredTranscripts == StoredUpTo(MaxMsgs)

\* String.prototype.trim()
RECURSIVE TrimStart(_)
TrimStart(text) ==
    IF text # <<>> /\ Head(text) = " " THEN TrimStart(Tail(text)) ELSE text
RECURSIVE TrimEnd(_)
TrimEnd(text) ==
    IF text # <<>> /\ text[Len(text)] = " "
    THEN TrimEnd(SubSeq(text, 1, Len(text) - 1))
    ELSE text
TrimText(text) == TrimEnd(TrimStart(text))

\* history.map(m => ({ role: m.role, content: m.content }))
ToChatMessage(m) == [role |-> m.role, content |-> m.content]
MapChat(h) == [i \in 1..Len(h) |-> ToChatMessage(h[i])]

\* messagesForAI.some(msg => msg.role === "system")
SomeSystem(ms) == \E i \in 1..Len(ms) : IsSystem(ms[i])
\* messagesForAI.findLastIndex(mm => mm.role === "system")
FindLastSystem(ms) ==
    CHOOSE i \in 1..Len(ms) : IsSystem(ms[i]) /\ \A j \in (i + 1)..Len(ms) : ~IsSystem(ms[j])

\* let systemPrompt = BASE_SYSTEM_PROMPT; if (webSearchEnabled) systemPrompt += ...
systemPrompt(web) == BASE_SYSTEM_PROMPT \o (IF web THEN WebSearchPrompt ELSE <<>>)

\* unshift the system prompt when no message is a system message; otherwise
\* append the note to the last system message
WithSystemPrompt(ms, web) ==
    IF ~SomeSystem(ms)
    THEN <<[role |-> "system", content |-> systemPrompt(web)]>> \o ms
    ELSE [i \in 1..Len(ms) |->
            IF IsSystem(ms[i]) /\ i = FindLastSystem(ms)
            THEN [ms[i] EXCEPT !.content = @ \o (IF web THEN WebSearchNote ELSE <<>>)]
            ELSE ms[i]]

\* const userMessage = { role: 'user', content: userMessageContent, timestamp: Date.now() }
NewUserMessage(raw, ts) == [role |-> "user", content |-> TrimText(raw), timestamp |-> ts]

\* messagesForAI after messagesForAI.push(userMessage)
AssembleMessages(h, raw, web, ts) ==
    Append(WithSystemPrompt(MapChat(h), web), NewUserMessage(raw, ts))

\* ------------------------------------------------------------------- Init
\* the module state of the worker when the isolate has loaded it
InitWorker ==
    /\ pc = [t \in Turns |-> "idle"]
    /\ status = [t \in Turns |-> 0]
    /\ conv = [t \in Turns |-> NoId]
    /\ history = [t \in Turns |-> <<>>]
    /\ userMessage = [t \in Turns |-> <<>>]
    /\ aborted = [t \in Turns |-> FALSE]
    /\ src = [t \in Turns |-> "none"]
    /\ delivered = [t \in Turns |-> <<>>]
    /\ savePos = [t \in Turns |-> 0]
    /\ content = [t \in Turns |-> <<>>]
    /\ isInterrupted = [t \in Turns |-> FALSE]
    /\ activeControllers = [id \in ConvIds |-> NoController]
    /\ kv = [id \in ConvIds |-> Missing]
    /\ rateLimitMap = [k \in ClientKeys |-> NoRecord]
    /\ now = 0
    /\ nextUuid = 0
    /\ lastCancel = 0
    /\ putResult = [t \in Turns |-> "none"]
    /\ before = [t \in Turns |-> <<>>]
    /\ concurrent = [t \in Turns |-> FALSE]
    /\ invocations = [t \in Turns |-> 0]
    /\ lastHistory = NoHistoryResponse
    /\ lastRateLimit = [allowed |-> TRUE, retryAfterSec |-> -1]
    /\ lastPreflight = 0

\* the configured cap of the rate limiter
InitEnv == maxRequests = RATE_LIMIT_MAX_REQUESTS

\* no message list is being trimmed
InitTrimIdle ==
    /\ trimPc = "input"
    /\ messages = <<>>
    /\ maxTokens = 0
    /\ trimmed = <<>>
    /\ retrimmed = <<>>

\* no message list is being built
InitPromptIdle ==
    /\ promptPc = "input"
    /\ stored = <<>>
    /\ lastMsgContent = <<>>
    /\ webSearchEnabled = FALSE
    /\ configuredMaxContextTokens = 0
    /\ messagesForAI = <<>>
    /\ sentMessages = <<>>

\* chat.js when the page has loaded: let isProcessing = false,
\* let currentConversationId = null
InitClient ==
    /\ isProcessing = FALSE
    /\ currentConversationId = NoId
    /\ clientPc = [r \in Sends |-> "idle"]
    /\ chunksRead = [r \in Sends |-> 0]
    /\ cancelsPending = 0

Init == InitWorker /\ InitEnv /\ InitTrimIdle /\ InitPromptIdle /\ InitClient

\* ---------------------------------------------------------------- actions
\* fetch, POST /api/chat: the rate limiter, then handlePostChat up to
\* await request.json()
fetchChat(t, key) ==
    /\ pc[t] = "idle"
    /\ \A u \in Turns : u < t => pc[u] # "idle"
    /\ checkRateLimit(key)
    /\ lastRateLimit' = RateLimitResult(key)
    /\ IF RateAllowed(key)
       THEN /\ pc' = [pc EXCEPT ![t] = "parse"]
            /\ UNCHANGED status
       ELSE /\ pc' = [pc EXCEPT ![t] = "done"]
            /\ status' = [status EXCEPT ![t] = 429]
    /\ UNCHANGED <<conv, aborted, activeControllers, kv, now, nextUuid, lastCancel,
                   putResult, before, concurrent, invocations, lastHistory, trimVars, restVars>>
    /\ UNCHANGED turnVars

\* a registration that keeps the entry an earlier turn holds (first writer wins)
RegisterIfAbsent(map, id, t) ==
    IF map[id] = NoController THEN [map EXCEPT ![id] = t] ELSE map

\* activeControllers.set(conversationId, controller)
Register(map, id, t) == [map EXCEPT ![id] = t]

\* a validation that accepts a user message of whitespace only
WellFormedLax(kind) == kind \in {"valid", "blank"}

\* body.messages is a non-empty array whose last element has role "user" and a
\* string content that is non-empty after trim()
WellFormed(kind) == kind = "valid"

\* handlePostChat from the continuation of await request.json(), which yields
\* the body, through the validation to await readHistory(...)
handlePostChatBegin(t, oldConversationId, kind, text) ==
    /\ pc[t] = "parse"
    /\ IF ~WellFormed(kind)
       THEN /\ status' = [status EXCEPT ![t] = 400]
            /\ pc' = [pc EXCEPT ![t] = "done"]
            /\ UNCHANGED <<conv, userMessage, activeControllers, nextUuid, before, concurrent>>
       ELSE LET fresh == NeedsNewId(oldConversationId)
                id == IF fresh THEN Uuid(nextUuid + 1) ELSE oldConversationId
            IN  /\ nextUuid' = IF fresh THEN nextUuid + 1 ELSE nextUuid
                /\ conv' = [conv EXCEPT ![t] = id]
                /\ activeControllers' = Register(activeControllers, id, t)
                /\ userMessage' = [userMessage EXCEPT ![t] = text]
                /\ pc' = [pc EXCEPT ![t] = "readHistory"]
                /\ before' = [before EXCEPT ![t] = Stored(kv, id)]
                /\ concurrent' = [u \in Turns |->
                       IF \E w \in Turns \ {t} : Active(w) /\ conv[w] = id
                       THEN (u = t \/ (Active(u) /\ conv[u] = id) \/ concurrent[u])
                       ELSE concurrent[u]]
                /\ UNCHANGED status
    /\ UNCHANGED <<history, aborted, src, delivered, savePos,
                   content, isInterrupted, kv, rateLimitMap, lastRateLimit, now, lastCancel, putResult,
                   invocations, lastHistory, trimVars, restVars>>

\* a handler that lets a failed read end the request with 500
handlePostChatLoadedSurfacing(t, getOk) ==
    /\ pc[t] = "readHistory"
    /\ IF getOk
       THEN /\ history' = [history EXCEPT ![t] = readHistory(kv, conv[t], getOk)]
            /\ pc' = [pc EXCEPT ![t] = "awaitModel1"]
            /\ invocations' = [invocations EXCEPT ![t] = @ + 1]
            /\ UNCHANGED status
       ELSE /\ status' = [status EXCEPT ![t] = 500]
            /\ pc' = [pc EXCEPT ![t] = "done"]
            /\ UNCHANGED <<history, invocations>>
    /\ UNCHANGED <<conv, userMessage, aborted, src, delivered, savePos,
                   content, isInterrupted, activeControllers, kv,
                   rateLimitMap, lastRateLimit, now, nextUuid, lastCancel, putResult, before, concurrent,
                   lastHistory, trimVars, restVars>>

\* the continuation of await readHistory(...) up to the first await callModelOnce();
\* pc is awaitModel1 while the first invocation is pending, awaitModel2 while the retry is
handlePostChatLoaded(t, getOk) ==
    /\ pc[t] = "readHistory"
    /\ history' = [history EXCEPT ![t] = readHistory(kv, conv[t], getOk)]
    /\ pc' = [pc EXCEPT ![t] = "awaitModel1"]
    /\ invocations' = [invocations EXCEPT ![t] = @ + 1]
    /\ UNCHANGED <<status, conv, userMessage, aborted, src, delivered, savePos,
                   content, isInterrupted, activeControllers, kv,
                   rateLimitMap, lastRateLimit, now, nextUuid, lastCancel, putResult, before, concurrent,
                   lastHistory, trimVars, restVars>>

ModelOutcomes == {"throw", "notOk", "noBody", "stream"}

\* the status of the Response returned once the provider's body has been teed
StreamStatus == 200

\* headers: {'X-Conversation-ID': conversationId} of the streaming response;
\* the error responses carry no such header
XConversationID(t) == IF status[t] = StreamStatus THEN conv[t] ELSE NoId

\* a handler that holds the response back until the drain task has finished
HandOffLate(t) == status

\* return new Response(streamForResponse, {status: llmResponse.status, ...}),
\* reached in the same run in which the drain task is started
HandOff(t) == [status EXCEPT ![t] = StreamStatus]

\* a handler that also calls the model again after a non-success response
RetryOnAnyFailure(outcome) == outcome \in {"throw", "notOk"}

\* try { llmResponse = await callModelOnce() } catch { ... }: only a call that
\* throws is followed by a second call
RetryOn(outcome) == outcome = "throw"

\* the continuation of await callModelOnce(): retry, error response, or tee and
\* return of the streaming response
handlePostChatModel(t, outcome) ==
    /\ pc[t] \in {"awaitModel1", "awaitModel2"}
    /\ aborted[t] => outcome = "throw"
    /\ CASE RetryOn(outcome) /\ pc[t] = "awaitModel1" ->
              /\ pc' = [pc EXCEPT ![t] = "awaitModel2"]
              /\ invocations' = [invocations EXCEPT ![t] = @ + 1]
              /\ UNCHANGED <<status, src>>
         [] outcome = "throw" /\ pc[t] = "awaitModel2" ->
              /\ status' = [status EXCEPT ![t] = 500]
              /\ pc' = [pc EXCEPT ![t] = "done"]
              /\ UNCHANGED <<src, invocations>>
         [] outcome = "notOk" ->
              /\ status' = [status EXCEPT ![t] = 502]
              /\ pc' = [pc EXCEPT ![t] = "done"]
              /\ UNCHANGED <<src, invocations>>
         [] outcome = "noBody" ->
              /\ status' = [status EXCEPT ![t] = 500]
              /\ pc' = [pc EXCEPT ![t] = "done"]
              /\ UNCHANGED <<src, invocations>>
         [] outcome = "stream" ->
              /\ src' = [src EXCEPT ![t] = "open"]
              /\ status' = HandOff(t)
              /\ pc' = [pc EXCEPT ![t] = "draining"]
              /\ UNCHANGED invocations
    /\ UNCHANGED <<conv, history, userMessage, aborted, delivered, savePos,
                   content, isInterrupted, activeControllers, kv,
                   rateLimitMap, lastRateLimit, now, nextUuid, lastCancel, putResult, before, concurrent,
                   lastHistory, trimVars, restVars>>

\* the provider stream is valid UTF-8 cut into chunks at arbitrary byte positions
PendingLead(t) == delivered[t] # <<>> /\ delivered[t][Len(delivered[t])] = <<"L">>

RECURSIVE ChunksSent(_)
ChunksSent(n) == IF n = 0 THEN 0 ELSE Len(delivered[n]) + ChunksSent(n - 1)

providerChunk(t, value) ==
    /\ src[t] = "open"
    /\ ChunksSent(MaxTurns) < MaxChunks
    /\ (value = <<"T">>) <=> PendingLead(t)
    /\ delivered' = [delivered EXCEPT ![t] = Append(@, value)]
    /\ UNCHANGED <<pc, status, conv, history, userMessage, aborted, src,
                   savePos, content, isInterrupted, activeControllers, kv,
                   rateLimitMap, lastRateLimit, now, nextUuid, lastCancel, putResult, before, concurrent,
                   invocations, lastHistory, trimVars, restVars>>

providerEnd(t) ==
    /\ src[t] = "open"
    /\ ~PendingLead(t)
    /\ src' = [src EXCEPT ![t] = "closed"]
    /\ UNCHANGED <<pc, status, conv, history, userMessage, aborted,
                   delivered, savePos, content, isInterrupted,
                   activeControllers, kv, rateLimitMap, lastRateLimit, now, nextUuid, lastCancel,
                   putResult, before, concurrent, invocations, lastHistory, trimVars, restVars>>

\* the provider connection fails mid-stream (not an abort)
providerError(t) ==
    /\ src[t] = "open"
    /\ src' = [src EXCEPT ![t] = "error"]
    /\ UNCHANGED <<pc, status, conv, history, userMessage, aborted,
                   delivered, savePos, content, isInterrupted,
                   activeControllers, kv, rateLimitMap, lastRateLimit, now, nextUuid, lastCancel,
                   putResult, before, concurrent, invocations, lastHistory, trimVars, restVars>>

\* a delete that leaves the map as it is
DeregisterNothing(map, id) == map

\* activeControllers.delete(conversationId)
Deregister(map, id) == [map EXCEPT ![id] = NoController]

\* a catch block that takes every thrown read for an abort
DrainStepAnyErrorAborts(t) ==
    IF src[t] = "aborted" \/ src[t] = "error" THEN "abort"
    ELSE IF savePos[t] < Len(delivered[t]) THEN "chunk"
    ELSE IF src[t] = "closed" THEN "done"
    ELSE "pending"

\* a read that never settles once the provider stream has failed
DrainStepStuckOnError(t) ==
    IF src[t] = "aborted" THEN "abort"
    ELSE IF src[t] = "error" THEN "pending"
    ELSE IF savePos[t] < Len(delivered[t]) THEN "chunk"
    ELSE IF src[t] = "closed" THEN "done"
    ELSE "pending"

\* what one reader.read() of the drain loop does to the loop
DrainStep(t) ==
    IF src[t] = "aborted" THEN "abort"
    ELSE IF src[t] = "error" THEN "error"
    ELSE IF savePos[t] < Len(delivered[t]) THEN "chunk"
    ELSE IF src[t] = "closed" THEN "done"
    ELSE "pending"

\* a drain task that gives up without a store write when a read throws
\* something other than an abort
drainReadDropsOnError(t) ==
    /\ pc[t] = "draining"
    /\ DrainStep(t) # "pending"
    /\ IF DrainStep(t) = "chunk"
       THEN /\ content' = [content EXCEPT ![t] = Accumulate(@, delivered[t][savePos[t] + 1])]
            /\ savePos' = [savePos EXCEPT ![t] = @ + 1]
            /\ UNCHANGED <<pc, isInterrupted, activeControllers>>
       ELSE /\ isInterrupted' = [isInterrupted EXCEPT ![t] = (DrainStep(t) = "abort")]
            /\ activeControllers' = Deregister(activeControllers, conv[t])
            /\ pc' = [pc EXCEPT ![t] = IF DrainStep(t) = "error" THEN "done" ELSE "saving"]
            /\ UNCHANGED <<content, savePos>>
    /\ UNCHANGED <<status, conv, history, userMessage, aborted, src,
                   delivered, kv, rateLimitMap, lastRateLimit, now, nextUuid, lastCancel,
                   putResult, before, concurrent, invocations, lastHistory, trimVars, restVars>>

\* one iteration of the drain loop of the ctx.waitUntil task; on done or on a
\* thrown read, the catch and finally blocks up to await saveConversation(...)
drainRead(t) ==
    /\ pc[t] = "draining"
    /\ DrainStep(t) # "pending"
    /\ IF DrainStep(t) = "chunk"
       THEN /\ content' = [content EXCEPT ![t] = Accumulate(@, delivered[t][savePos[t] + 1])]
            /\ savePos' = [savePos EXCEPT ![t] = @ + 1]
            /\ UNCHANGED <<pc, isInterrupted, activeControllers>>
       ELSE /\ isInterrupted' = [isInterrupted EXCEPT ![t] = (DrainStep(t) = "abort")]
            /\ activeControllers' = Deregister(activeControllers, conv[t])
            /\ pc' = [pc EXCEPT ![t] = "saving"]
            /\ UNCHANGED <<content, savePos>>
    /\ UNCHANGED <<status, conv, history, userMessage, aborted, src,
                   delivered, kv, rateLimitMap, lastRateLimit, now, nextUuid, lastCancel,
                   putResult, before, concurrent, invocations, lastHistory, trimVars, restVars>>

\* the updatedHistory the turn hands to saveConversation
WrittenTranscript(t) ==
    UpdatedHistory(history[t], userMessage[t], content[t], isInterrupted[t])

\* a saveConversation that attempts the put again after a failure
saveConversationRetrying(t, putOk) ==
    /\ pc[t] = "saving"
    /\ kv' = IF putOk
             THEN [kv EXCEPT ![conv[t]] = JSONstringify(WrittenTranscript(t))]
             ELSE kv
    /\ putResult' = [putResult EXCEPT ![t] = IF putOk THEN "ok" ELSE "failed"]
    /\ pc' = [pc EXCEPT ![t] = IF putOk THEN "done" ELSE "saving"]
    /\ UNCHANGED <<status, conv, history, userMessage, aborted, src,
                   delivered, savePos, content, isInterrupted,
                   activeControllers, rateLimitMap, lastRateLimit, now, nextUuid, lastCancel,
                   before, concurrent, invocations, lastHistory, trimVars, restVars>>

\* the continuation of await env.CHAT_HISTORY.put(...) inside saveConversation
saveConversation(t, putOk) ==
    /\ pc[t] = "saving"
    /\ kv' = IF putOk
             THEN [kv EXCEPT ![conv[t]] = JSONstringify(WrittenTranscript(t))]
             ELSE kv
    /\ putResult' = [putResult EXCEPT ![t] = IF putOk THEN "ok" ELSE "failed"]
    /\ pc' = [pc EXCEPT ![t] = "done"]
    /\ UNCHANGED <<status, conv, history, userMessage, aborted, src,
                   delivered, savePos, content, isInterrupted,
                   activeControllers, rateLimitMap, lastRateLimit, now, nextUuid, lastCancel,
                   before, concurrent, invocations, lastHistory, trimVars, restVars>>

\* a lookup that falls back to any registered controller
LookupAny(id) ==
    IF activeControllers[id] # NoController THEN activeControllers[id]
    ELSE IF \E other \in ConvIds : activeControllers[other] # NoController
    THEN activeControllers[CHOOSE other \in ConvIds : activeControllers[other] # NoController]
    ELSE NoController

\* const controller = activeControllers.get(conversationId)
Lookup(id) == activeControllers[id]

\* fetch, POST /api/chat/<id>/cancel
handlePostCancel(id) ==
    LET controller == Lookup(id) IN
    IF controller # NoController
    THEN /\ aborted' = [aborted EXCEPT ![controller] = TRUE]
         /\ src' = [src EXCEPT ![controller] = IF @ = "open" THEN "aborted" ELSE @]
         /\ activeControllers' = Deregister(activeControllers, id)
         /\ lastCancel' = 200
         /\ UNCHANGED <<pc, status, conv, history, userMessage, delivered, savePos, content, isInterrupted, kv,
                        rateLimitMap, lastRateLimit, now, nextUuid, putResult, before, concurrent,
                        invocations, lastHistory, trimVars, restVars>>
    ELSE /\ lastCancel' = 404
         /\ UNCHANGED <<pc, status, conv, history, userMessage, aborted,
                        src, delivered, savePos, content, isInterrupted,
                        activeControllers, kv, rateLimitMap, lastRateLimit, now, nextUuid, putResult,
                        before, concurrent, invocations, lastHistory, trimVars, restVars>>

\* handleGetHistory: 400 without an id, else 200 with whatever readHistory
\* returns; readHistory never throws, so the catch (500) is never entered
GetHistoryResponse(id, getOk) ==
    IF id = NoId \/ id = ""
    THEN [status |-> 400, conversationId |-> NoId, history |-> <<>>]
    ELSE [status |-> 200, conversationId |-> id, history |-> readHistory(kv, id, getOk)]

\* fetch, GET /api/history?id=<id>
handleGetHistory(id, getOk) ==
    /\ lastHistory' = GetHistoryResponse(id, getOk)
    /\ UNCHANGED <<pc, status, conv, history, userMessage, aborted, src,
                   delivered, savePos, content, isInterrupted,
                   activeControllers, kv, rateLimitMap, lastRateLimit, now, nextUuid, lastCancel,
                   putResult, before, concurrent, invocations, trimVars, restVars>>

\* a preflight that is counted by the rate limiter like a chat request
handleOptionsLimited ==
    /\ \E key \in ClientKeys :
          /\ checkRateLimit(key)
          /\ lastRateLimit' = RateLimitResult(key)
          /\ lastPreflight' = IF RateAllowed(key) THEN 204 ELSE 429
    /\ UNCHANGED <<pc, status, conv, history, userMessage, aborted, src,
                   delivered, savePos, content, isInterrupted,
                   activeControllers, kv, now, nextUuid, lastCancel,
                   putResult, before, concurrent, invocations, lastHistory, trimVars,
                   maxRequests, promptVars, clientVars>>

\* fetch, request.method === "OPTIONS": 204 with the CORS headers
handleOptions ==
    /\ lastPreflight' = 204
    /\ UNCHANGED <<pc, status, conv, history, userMessage, aborted, src,
                   delivered, savePos, content, isInterrupted,
                   activeControllers, kv, rateLimitMap, lastRateLimit, now, nextUuid,
                   lastCancel, putResult, before, concurrent, invocations, lastHistory,
                   trimVars, maxRequests, promptVars, clientVars>>

\* "Retry-After": String(rl.retryAfterSec ?? 60)
RetryAfterHeader(rl) == IF rl.retryAfterSec = -1 THEN 60 ELSE rl.retryAfterSec

Next ==
    \/ \E t \in Turns, key \in ClientKeys : fetchChat(t, key)
    \/ \E t \in Turns, id \in RequestIds, kind \in BodyKinds, text \in UserTexts :
          handlePostChatBegin(t, id, kind, text)
    \/ \E t \in Turns, getOk \in BOOLEAN : handlePostChatLoaded(t, getOk)
    \/ \E t \in Turns, outcome \in ModelOutcomes : handlePostChatModel(t, outcome)
    \/ \E t \in Turns, value \in ByteChunks : providerChunk(t, value)
    \/ \E t \in Turns : providerEnd(t)
    \/ \E t \in Turns : providerError(t)
    \/ \E t \in Turns : drainRead(t)
    \/ \E t \in Turns, putOk \in BOOLEAN : saveConversation(t, putOk)
    \/ \E id \in ConvIds : handlePostCancel(id)

Spec == Init /\ [][Next]_vars

\* the promise handed to ctx.waitUntil has not settled: the runtime keeps the
\* invocation alive
waitUntilPending(t) == pc[t] \in {"draining", "saving"}

\* the runtime runs the continuations of the task it keeps alive: a read that
\* can settle is resumed, and the put settles one way or the other
Fairness ==
    \A t \in Turns :
        /\ WF_vars(drainRead(t))
        /\ WF_vars(\E putOk \in BOOLEAN : saveConversation(t, putOk))

\* one chat turn, cancel requests and history requests: the worker as the
\* end-to-end scenarios of the history endpoint exercise it
HistoryTurns == {1}

NextHistory ==
    \/ \E t \in HistoryTurns, key \in ClientKeys : fetchChat(t, key)
    \/ \E t \in HistoryTurns, id \in RequestIds, kind \in BodyKinds, text \in UserTexts :
          handlePostChatBegin(t, id, kind, text)
    \/ \E t \in HistoryTurns, getOk \in BOOLEAN : handlePostChatLoaded(t, getOk)
    \/ \E t \in HistoryTurns, outcome \in ModelOutcomes : handlePostChatModel(t, outcome)
    \/ \E t \in HistoryTurns, value \in ByteChunks : providerChunk(t, value)
    \/ \E t \in HistoryTurns : providerEnd(t)
    \/ \E t \in HistoryTurns : providerError(t)
    \/ \E t \in HistoryTurns : drainRead(t)
    \/ \E t \in HistoryTurns, putOk \in BOOLEAN : saveConversation(t, putOk)
    \/ \E id \in ConvIds : handlePostCancel(id)
    \/ \E id \in HistoryIds, getOk \in BOOLEAN : handleGetHistory(id, getOk)

SpecHistory == Init /\ [][NextHistory]_vars

\* the same worker with the runtime's scheduling of the kept-alive task
SpecLive == Init /\ [][NextHistory]_vars /\ Fairness

\* Date.now() moves on between two requests
TickSteps == {MsPerSec - 1, MsPerSec}

Tick(d) ==
    /\ now + d <= MaxTime
    /\ now' = now + d
    /\ UNCHANGED <<pc, status, conv, history, userMessage, aborted, src,
                   delivered, savePos, content, isInterrupted,
                   activeControllers, kv, rateLimitMap, lastRateLimit, nextUuid, lastCancel,
                   putResult, before, concurrent, invocations, lastHistory, trimVars, restVars>>

\* fetch, POST /api/chat with a body that handlePostChat rejects: the rate
\* limiter, then either the 429 response or the 400 of the validation, neither
\* of which changes anything but the rate-limit map
chatRequest(key) ==
    /\ checkRateLimit(key)
    /\ lastRateLimit' = RateLimitResult(key)
    /\ UNCHANGED <<pc, status, conv, history, userMessage, aborted, src,
                   delivered, savePos, content, isInterrupted,
                   activeControllers, kv, now, nextUuid, lastCancel,
                   putResult, before, concurrent, invocations, lastHistory, trimVars, restVars>>

\* the rate limiter under a moving clock and an unbounded number of requests
NextRate ==
    \/ \E d \in TickSteps : Tick(d)
    \/ \E key \in ClientKeys : chatRequest(key)

SpecRate == Init /\ [][NextRate]_vars

\* the rate limiter under every configured cap
InitCap == InitWorker /\ maxRequests \in Caps /\ InitTrimIdle /\ InitPromptIdle /\ InitClient

SpecCap == InitCap /\ [][NextRate]_vars

\* the router: one chat turn, further chat requests that fail validation,
\* cancel, history and preflight requests, all arriving within one window
NextFetch ==
    \/ \E t \in HistoryTurns, key \in ClientKeys : fetchChat(t, key)
    \/ \E t \in HistoryTurns, id \in RequestIds, kind \in BodyKinds, text \in UserTexts :
          handlePostChatBegin(t, id, kind, text)
    \/ \E t \in HistoryTurns, getOk \in BOOLEAN : handlePostChatLoaded(t, getOk)
    \/ \E t \in HistoryTurns, outcome \in ModelOutcomes : handlePostChatModel(t, outcome)
    \/ \E t \in HistoryTurns, value \in ByteChunks : providerChunk(t, value)
    \/ \E t \in HistoryTurns : providerEnd(t)
    \/ \E t \in HistoryTurns : providerError(t)
    \/ \E t \in HistoryTurns : drainRead(t)
    \/ \E t \in HistoryTurns, putOk \in BOOLEAN : saveConversation(t, putOk)
    \/ \E id \in ConvIds : handlePostCancel(id)
    \/ \E id \in HistoryIds, getOk \in BOOLEAN : handleGetHistory(id, getOk)
    \/ handleOptions
    \/ \E key \in ClientKeys : chatRequest(key)

SpecFetch == Init /\ [][NextFetch]_vars

\* the trimmer on its own: every message list and budget within the bounds,
\* trimmed once and then once more with the same budget
InitTrim ==
    /\ InitWorker /\ InitEnv /\ InitPromptIdle /\ InitClient
    /\ trimPc = "input"
    /\ messages \in MessageLists
    /\ maxTokens \in Budgets
    /\ trimmed = <<>>
    /\ retrimmed = <<>>

workerVars == <<pc, status, conv, history, userMessage, aborted, src,
                delivered, savePos, content, isInterrupted,
                activeControllers, kv, rateLimitMap, lastRateLimit, now, nextUuid,
                lastCancel, putResult, before, concurrent, invocations, lastHistory,
                restVars>>

trimOnce ==
    /\ trimPc = "input"
    /\ trimmed' = trimMessagesToTokenLimit(messages, maxTokens)
    /\ trimPc' = "trimmed"
    /\ UNCHANGED <<messages, maxTokens, retrimmed>>
    /\ UNCHANGED workerVars

trimAgain ==
    /\ trimPc = "trimmed"
    /\ retrimmed' = trimMessagesToTokenLimit(trimmed, maxTokens)
    /\ trimPc' = "retrimmed"
    /\ UNCHANGED <<messages, maxTokens, trimmed>>
    /\ UNCHANGED workerVars

NextTrim == trimOnce \/ trimAgain

SpecTrim == InitTrim /\ [][NextTrim]_vars

\* the message list of one turn: every stored transcript, last message,
\* web-search flag and context budget within the bounds
InitPrompt ==
    /\ InitWorker /\ InitEnv /\ InitTrimIdle /\ InitClient
    /\ promptPc = "input"
    /\ stored \in StoredTranscripts
    /\ lastMsgContent \in RawUserTexts
    /\ webSearchEnabled \in BOOLEAN
    /\ configuredMaxContextTokens \in Budgets
    /\ messagesForAI = <<>>
    /\ sentMessages = <<>>

\* handlePostChat from the transcript readHistory returned to the push of the
\* user message
assembleMessages ==
    /\ promptPc = "input"
    /\ messagesForAI' = AssembleMessages(stored, lastMsgContent, webSearchEnabled, now)
    /\ promptPc' = "assembled"
    /\ UNCHANGED <<stored, lastMsgContent, webSearchEnabled, configuredMaxContextTokens,
                   sentMessages>>
    /\ UNCHANGED <<pc, status, conv, history, userMessage, aborted, src,
                   delivered, savePos, content, isInterrupted,
                   activeControllers, kv, rateLimitMap, lastRateLimit, now, nextUuid,
                   lastCancel, putResult, before, concurrent, invocations, lastHistory,
                   trimVars, routerVars, clientVars>>

\* messagesForAI = trimMessagesToTokenLimit(messagesForAI, configuredMaxContextTokens),
\* the list callModelOnce hands to env.AI.run
trimForModel ==
    /\ promptPc = "assembled"
    /\ sentMessages' = trimMessagesToTokenLimit(messagesForAI, configuredMaxContextTokens)
    /\ promptPc' = "sent"
    /\ UNCHANGED <<stored, lastMsgContent, webSearchEnabled, configuredMaxContextTokens,
                   messagesForAI>>
    /\ UNCHANGED <<pc, status, conv, history, userMessage, aborted, src,
                   delivered, savePos, content, isInterrupted,
                   activeControllers, kv, rateLimitMap, lastRateLimit, now, nextUuid,
                   lastCancel, putResult, before, concurrent, invocations, lastHistory,
                   trimVars, routerVars, clientVars>>

NextPrompt == assembleMessages \/ trimForModel

SpecPrompt == InitPrompt /\ [][NextPrompt]_vars

\* ------------------------------------------------------------------ client
\* everything but the state of chat.js
serverVars == <<pc, status, conv, history, userMessage, aborted, src,
                delivered, savePos, content, isInterrupted,
                activeControllers, kv, rateLimitMap, lastRateLimit, now, nextUuid,
                lastCancel, putResult, before, concurrent, invocations, lastHistory,
                trimVars, routerVars, promptVars>>

\* the call's response has not arrived or its body is still being read
RequestInFlight(r) == clientPc[r] \in {"fetching", "reading"}

\* cleanUpAfterProcessing: isProcessing = false
cleanUpAfterProcessing == isProcessing' = FALSE

\* sendMessage with a non-blank input, up to await fetch("/api/chat", ...)
sendMessage(r) ==
    /\ clientPc[r] = "idle"
    /\ \A q \in Sends : q < r => clientPc[q] # "idle"
    /\ ~isProcessing
    /\ isProcessing' = TRUE
    /\ clientPc' = [clientPc EXCEPT ![r] = "fetching"]
    /\ UNCHANGED <<currentConversationId, chunksRead, cancelsPending>>
    /\ UNCHANGED serverVars

\* sendMessage from the continuation of await fetch: the catch block when the
\* fetch rejects or the response is not ok, otherwise the X-Conversation-ID
\* header and the first reader.read()
chatResponse(r, ok, newId) ==
    /\ clientPc[r] = "fetching"
    /\ IF ok
       THEN /\ currentConversationId' =
                  IF newId # NoId /\ newId # "" THEN newId ELSE currentConversationId
            /\ clientPc' = [clientPc EXCEPT ![r] = "reading"]
            /\ UNCHANGED isProcessing
       ELSE /\ cleanUpAfterProcessing
            /\ clientPc' = [clientPc EXCEPT ![r] = "done"]
            /\ UNCHANGED currentConversationId
    /\ UNCHANGED <<chunksRead, cancelsPending>>
    /\ UNCHANGED serverVars

\* the read loop: a chunk is decoded and appended
readChunk(r) ==
    /\ clientPc[r] = "reading"
    /\ chunksRead[r] < MaxChunks
    /\ chunksRead' = [chunksRead EXCEPT ![r] = @ + 1]
    /\ UNCHANGED <<isProcessing, currentConversationId, clientPc, cancelsPending>>
    /\ UNCHANGED serverVars

\* the read loop: done, then upsertConversationIndex and cleanUpAfterProcessing()
readDone(r) ==
    /\ clientPc[r] = "reading"
    /\ cleanUpAfterProcessing
    /\ clientPc' = [clientPc EXCEPT ![r] = "done"]
    /\ UNCHANGED <<currentConversationId, chunksRead, cancelsPending>>
    /\ UNCHANGED serverVars

\* the read loop: reader.read() rejects, the catch block runs
readError(r) ==
    /\ clientPc[r] = "reading"
    /\ cleanUpAfterProcessing
    /\ clientPc' = [clientPc EXCEPT ![r] = "done"]
    /\ UNCHANGED <<currentConversationId, chunksRead, cancelsPending>>
    /\ UNCHANGED serverVars

\* stopGenerating up to await fetch(`/api/chat/${currentConversationId}/cancel`)
stopGenerating ==
    /\ isProcessing
    /\ currentConversationId # NoId
    /\ cancelsPending < MaxCancels
    /\ cancelsPending' = cancelsPending + 1
    /\ UNCHANGED <<isProcessing, currentConversationId, clientPc, chunksRead>>
    /\ UNCHANGED serverVars

\* stopGenerating, the finally block: whatever the cancel request returned,
\* cleanUpAfterProcessing(true)
stopSettled ==
    /\ cancelsPending > 0
    /\ cancelsPending' = cancelsPending - 1
    /\ cleanUpAfterProcessing
    /\ UNCHANGED <<currentConversationId, clientPc, chunksRead>>
    /\ UNCHANGED serverVars

NextClient ==
    \/ \E r \in Sends : sendMessage(r)
    \/ \E r \in Sends, ok \in BOOLEAN, newId \in ConvIds : chatResponse(r, ok, newId)
    \/ \E r \in Sends : readChunk(r)
    \/ \E r \in Sends : readDone(r)
    \/ \E r \in Sends : readError(r)
    \/ stopGenerating
    \/ stopSettled

SpecClient == Init /\ [][NextClient]_vars

\* ------------------------------------------------------------------ claims
Persisted(t) == putResult[t] = "ok"
PersistedAssistant(t) == WrittenTranscript(t)[Len(WrittenTranscript(t))]
\* the chunks the tee had handed to both branches when the drain loop stopped
ForwardedChunks(t) == SubSeq(delivered[t], 1, savePos[t])
\* no generation for id is in flight
Quiet(id) == \A t \in Turns : conv[t] = id => ~InFlight(t)
\* the step in which turn t's store write completes successfully
WriteLands(t) == pc[t] = "saving" /\ pc'[t] = "done" /\ putResult'[t] = "ok"

\* C1: the content of the assistant message a turn persists is the text of the
\* chunks forwarded to the client up to completion or interruption, in order.
C1_PersistedEqualsForwarded ==
    \A t \in Turns :
        Persisted(t) => PersistedAssistant(t).content = TextDecode(Flatten(ForwardedChunks(t)))

\* C2: whenever no turn for an id is in flight, the registry holds no entry
\* for that id.
C2_NoDanglingEntry ==
    \A id \in ConvIds : Quiet(id) => activeControllers[id] = NoController

\* C3: a turn whose handle was aborted by an accepted cancel persists its
\* assistant message with interrupted = true.
C3_CancelledIsInterrupted ==
    \A t \in Turns :
        (aborted[t] /\ Persisted(t)) => PersistedAssistant(t).interrupted

\* C4: a turn whose handle was aborted by an accepted cancel while it was in
\* flight leaves the in-flight states only by starting its store write, with
\* the assistant message flagged interrupted and with content that is
\* non-empty only if a chunk was read before the abort was seen; it never ends
\* without a transcript having been written.
C4_CancelledEndsPersisted ==
    [][\A t \in Turns :
          (InFlight(t) /\ aborted[t]) =>
              /\ pc'[t] # "done"
              /\ pc'[t] = "saving" =>
                    /\ isInterrupted'[t]
                    /\ (content'[t] # <<>> => savePos'[t] > 0)]_vars

\* C5: a cancel is answered 200 exactly when a generation for that id is in
\* flight and its handle is the one found and aborted, and 404 otherwise.
C5_CancelStatus ==
    [][\A id \in ConvIds :
          handlePostCancel(id) =>
              /\ lastCancel' \in {200, 404}
              /\ (lastCancel' = 200) <=>
                    \E t \in Turns : /\ conv[t] = id
                                     /\ InFlight(t)
                                     /\ activeControllers[id] = t
                                     /\ aborted'[t]]_vars

\* C6: a cancel for an id without a registry entry is answered 404 and changes
\* neither the registry, any abort handle or stream, the rate-limit map nor
\* the store.
C6_CancelMissNoEffect ==
    [][\A id \in ConvIds :
          (handlePostCancel(id) /\ activeControllers[id] = NoController) =>
              /\ lastCancel' = 404
              /\ UNCHANGED <<activeControllers, aborted, src, rateLimitMap, kv,
                             pc, status, conv, history, delivered, savePos,
                             content, isInterrupted, putResult, nextUuid>>]_vars
C6_Witness ==
    /\ lastCancel = 404
    /\ \E t \in Turns : InFlight(t) /\ activeControllers[conv[t]] = t /\ ~aborted[t]
    /\ \E id \in ConvIds : kv[id] # Missing

\* C7: a valid turn on an existing conversation whose write succeeds leaves a
\* transcript exactly two messages longer than the one stored before the turn
\* began, ending with its user and assistant messages; an invalid turn leaves
\* the store unchanged.
C7_GrowsByTwo ==
    [][\A t \in Turns :
          /\ (WriteLands(t) /\ before[t] # <<>>) =>
                /\ Len(Stored(kv', conv[t])) = Len(before[t]) + 2
                /\ Stored(kv', conv[t])[Len(before[t]) + 1].role = "user"
                /\ Stored(kv', conv[t])[Len(before[t]) + 2].role = "assistant"
          /\ (pc[t] = "parse" /\ status'[t] = 400) => kv' = kv]_vars

\* C8: for turns on one id that do not overlap, the transcript a turn persists
\* is the previously persisted transcript followed by the turn's user message
\* and its assistant message.
C8_AppendOnly ==
    [][\A t \in Turns :
          (WriteLands(t) /\ ~concurrent[t]) =>
              Stored(kv', conv[t]) =
                  Stored(kv, conv[t]) \o
                      <<UserMsg(userMessage[t]), AiMsg(content[t], isInterrupted[t])>>]_vars

\* C9: a turn that starts on an id replaces whatever handle is registered for
\* it; a handle is aborted only by a cancel answered 200 that finds it as the
\* registered one, so a cancel aborts the latest turn only and a turn whose
\* handle was replaced can no longer be cancelled.
C9_LastWriterWins ==
    [][\A t \in Turns :
          /\ (pc[t] = "parse" /\ pc'[t] = "readHistory") => activeControllers'[conv'[t]] = t
          /\ (~aborted[t] /\ aborted'[t]) =>
                /\ lastCancel' = 200
                /\ activeControllers[conv[t]] = t
                /\ \A u \in Turns \ {t} : aborted'[u] = aborted[u]]_vars
C9_Witness ==
    /\ InFlight(1) /\ InFlight(2) /\ conv[1] = conv[2]
    /\ lastCancel = 200
    /\ aborted[2] /\ ~aborted[1]
    /\ activeControllers[conv[1]] = NoController

\* C10: the streaming response is handed to the caller before any chunk is
\* accumulated and before the store write begins.
C10_ResponseBeforeWrite ==
    \A t \in Turns :
        (pc[t] \in {"draining", "saving"} \/ savePos[t] > 0 \/ putResult[t] # "none")
            => status[t] = StreamStatus
C10_Witness ==
    \E t \in Turns :
        /\ pc[t] = "done" /\ Persisted(t) /\ status[t] = StreamStatus
        /\ content[t] # <<>>

\* C11: a chat request whose messages are missing, empty or do not end in a
\* non-empty user message is answered 400 in the very step that validates it,
\* with the registry, the store and the id counter untouched, and the model is
\* never invoked for it.
C11_InvalidRejectedEarly ==
    [][\A t \in Turns :
          /\ \A id \in RequestIds, kind \in BodyKinds \ {"valid"}, text \in UserTexts :
                handlePostChatBegin(t, id, kind, text) =>
                    /\ status'[t] = 400 /\ pc'[t] = "done"
                    /\ UNCHANGED <<activeControllers, kv, nextUuid, invocations, conv>>
          /\ status'[t] = 400 => invocations'[t] = 0 /\ putResult'[t] = "none"]_vars
C11_Witness ==
    \E t, u \in Turns :
        /\ status[t] = 400 /\ pc[t] = "done" /\ invocations[t] = 0
        /\ InFlight(u) /\ activeControllers[conv[u]] = u

\* C12: when the provider answers with a non-success status the turn is
\* answered 502 in that step, the model is not invoked again for the turn, and
\* no stream is ever opened or returned for it.
C12_NonSuccessIs502 ==
    [][\A t \in Turns :
          /\ handlePostChatModel(t, "notOk") =>
                /\ status'[t] = 502 /\ pc'[t] = "done"
                /\ invocations'[t] = invocations[t]
                /\ src'[t] = "none"
          /\ status[t] = 502 =>
                /\ status'[t] = 502
                /\ invocations'[t] = invocations[t]
                /\ src'[t] = "none" /\ delivered'[t] = <<>>]_vars
C12_Witness ==
    \E t \in Turns :
        /\ status[t] = 502 /\ pc[t] = "done"
        /\ invocations[t] = 1 /\ src[t] = "none"

\* C13: a model invocation that throws is followed by exactly one further
\* invocation, no turn invokes the model more than twice, and a second throw
\* is answered 502.
C13_RetryOnceThen502 ==
    [][\A t \in Turns :
          /\ invocations'[t] <= 2
          /\ (handlePostChatModel(t, "throw") /\ pc[t] = "awaitModel1") =>
                /\ invocations[t] = 1 /\ invocations'[t] = 2
                /\ pc'[t] = "awaitModel2"
          /\ (handlePostChatModel(t, "throw") /\ pc[t] = "awaitModel2") =>
                /\ invocations'[t] = 2
                /\ status'[t] = 502 /\ pc'[t] = "done"]_vars

\* C14: a provider response with a success status and no body is answered 502,
\* and no response was handed to the caller before.
C14_NoBodyIs502 ==
    [][\A t \in Turns :
          handlePostChatModel(t, "noBody") =>
              /\ status[t] = 0
              /\ status'[t] = 502 /\ pc'[t] = "done"]_vars

\* C15: a failed store read during a chat turn is not surfaced: the turn takes
\* the empty transcript, exactly what a read of an id without a record yields,
\* gets no error status, and goes on to its first model invocation.
C15_ReadFailureSwallowed ==
    [][\A t \in Turns :
          handlePostChatLoaded(t, FALSE) =>
              /\ history'[t] = <<>>
              /\ history'[t] = readHistory([kv EXCEPT ![conv[t]] = Missing], conv[t], TRUE)
              /\ status'[t] = 0
              /\ pc'[t] = "awaitModel1" /\ invocations'[t] = 1]_vars
C15_Witness ==
    \E t \in Turns :
        /\ before[t] # <<>> /\ history[t] = <<>>
        /\ status[t] = StreamStatus /\ delivered[t] # <<>>
        /\ pc[t] \in {"draining", "saving", "done"}

\* C16: a turn attempts its store write at most once: once the attempt has an
\* outcome, that outcome stands and the turn is finished.  A failed write
\* leaves the store as it was and changes neither the status already returned
\* to the client nor the chunks streamed to it, just like a successful one.
C16_SingleWriteNotSurfaced ==
    [][\A t \in Turns :
          /\ putResult[t] # "none" =>
                putResult'[t] = putResult[t] /\ pc'[t] = "done"
          /\ saveConversation(t, FALSE) =>
                /\ putResult[t] = "none" /\ putResult'[t] = "failed"
                /\ pc'[t] = "done" /\ kv' = kv
          /\ \A putOk \in BOOLEAN :
                saveConversation(t, putOk) =>
                    /\ status[t] = StreamStatus /\ status'[t] = StreamStatus
                    /\ delivered'[t] = delivered[t]]_vars
C16_Witness ==
    \E t \in Turns :
        /\ putResult[t] = "failed" /\ pc[t] = "done"
        /\ status[t] = StreamStatus /\ delivered[t] # <<>>
        /\ kv[conv[t]] = Missing

\* C17: a valid turn with an absent, empty or "null" conversation id gets a
\* minted id that is non-empty and differs from every id minted before; a
\* supplied id is taken verbatim.  The resolved id never changes afterwards and
\* is the key under which the turn is registered and deregistered, the only
\* store key the turn writes, and the id in the header of its response.
C17_ResolvedIdEverywhere ==
    [][\A t \in Turns :
          /\ \A old \in RequestIds, text \in UserTexts :
                handlePostChatBegin(t, old, "valid", text) =>
                    /\ old \in {NoId, "", "null"} =>
                          /\ conv'[t] \notin {NoId, "", "null"}
                          /\ conv'[t] \notin {Uuid(n) : n \in 1..nextUuid}
                    /\ old \notin {NoId, "", "null"} => conv'[t] = old
                    /\ activeControllers'[conv'[t]] = t
                    /\ \A id \in ConvIds \ {conv'[t]} :
                          activeControllers'[id] = activeControllers[id]
          /\ pc[t] \notin {"idle", "parse"} => conv'[t] = conv[t]
          /\ (pc[t] = "draining" /\ pc'[t] = "saving") =>
                /\ activeControllers'[conv[t]] = NoController
                /\ \A id \in ConvIds \ {conv[t]} :
                      activeControllers'[id] = activeControllers[id]
          /\ WriteLands(t) =>
                /\ kv'[conv[t]] = JSONstringify(WrittenTranscript(t))
                /\ \A id \in ConvIds \ {conv[t]} : kv'[id] = kv[id]
          /\ status'[t] = StreamStatus =>
                XConversationID(t)' = conv'[t] /\ conv'[t] \in ConvIds]_vars
C17_Witness ==
    /\ conv[1] \in MintedIds /\ conv[2] \in MintedIds /\ conv[1] # conv[2]
    /\ Persisted(1) /\ kv[conv[1]] # Missing /\ kv[conv[2]] = Missing
    /\ XConversationID(1) = conv[1] /\ XConversationID(2) = conv[2]
    /\ activeControllers[conv[2]] = 2

\* the turn started without an id, its provider stream ended, the drain loop
\* read all of it uninterrupted, and the store write succeeded
CompletedNormally(t) ==
    /\ pc[t] = "done" /\ Persisted(t)
    /\ conv[t] \in MintedIds /\ XConversationID(t) = conv[t]
    /\ src[t] = "closed" /\ ~aborted[t] /\ ~isInterrupted[t]
    /\ savePos[t] = Len(delivered[t])

\* C18: after a turn started without an id has completed normally and its
\* write has succeeded, a history request for the id of the response header
\* whose read succeeds is answered 200 with exactly the user message followed
\* by one assistant message whose content is the text of the streamed body.
C18_HistoryAfterTurn ==
    [][\A t \in HistoryTurns :
          (CompletedNormally(t) /\ handleGetHistory(XConversationID(t), TRUE)) =>
              /\ lastHistory'.status = 200
              /\ lastHistory'.history =
                    <<UserMsg(userMessage[t]),
                      AiMsg(TextDecode(Flatten(delivered[t])), FALSE)>>]_vars

\* C19: a history request for an id without a stored record is answered 404.
C19_HistoryMissingIs404 ==
    [][\A id \in ConvIds :
          (handleGetHistory(id, TRUE) /\ kv[id] = Missing) =>
              lastHistory'.status = 404]_vars

\* C20: a history request whose store read fails is answered 500, a history
\* request without an id is answered 400, and neither is answered 200.
C20_HistoryFailureStatus ==
    [][/\ \A id \in ConvIds :
             handleGetHistory(id, FALSE) => lastHistory'.status = 500
       /\ \A id \in {NoId, ""}, getOk \in BOOLEAN :
             handleGetHistory(id, getOk) => lastHistory'.status = 400]_vars

\* C21: once the record of a client key counts the configured maximum of
\* allowed requests, every further chat request of that key arriving less than
\* the window after the window's first request is rejected, leaves the record
\* as it is, and carries a Retry-After of at least 1 and at most windowSec.
C21_RejectedWithRetryAfter ==
    [][\A key \in ClientKeys :
          ( /\ chatRequest(key)
            /\ RateRecord(key) # NoRecord
            /\ RateRecord(key).count >= RATE_LIMIT_MAX_REQUESTS
            /\ now - RateRecord(key).windowStart < windowMs ) =>
              /\ ~lastRateLimit'.allowed
              /\ lastRateLimit'.retryAfterSec >= 1
              /\ lastRateLimit'.retryAfterSec <= RATE_LIMIT_WINDOW_SEC
              /\ rateLimitMap' = rateLimitMap]_vars
C21_Witness ==
    \E key \in ClientKeys :
        /\ ~lastRateLimit.allowed /\ lastRateLimit.retryAfterSec = 1
        /\ RateRecord(key).count = RATE_LIMIT_MAX_REQUESTS
        /\ now - RateRecord(key).windowStart = windowMs - 1

\* C22: trimming a trimmed list again with the same budget changes nothing.
C22_TrimIdempotent ==
    trimPc = "retrimmed" => retrimmed = trimmed
C22_Witness ==
    /\ trimPc = "retrimmed" /\ retrimmed = trimmed
    /\ trimmed # messages /\ NonSystem(trimmed) # <<>>
    /\ SystemMessages(messages) # <<>>

\* C23: the trimmed list holds exactly the system messages of the input, same
\* count and same contents, and is never longer than the input.
C23_SystemKeptNotLonger ==
    trimPc # "input" =>
        /\ SystemMessages(trimmed) = SystemMessages(messages)
        /\ Len(trimmed) <= Len(messages)
C23_Witness ==
    /\ trimPc = "trimmed"
    /\ Len(SystemMessages(messages)) = 2
    /\ estimateTokensFromMessages(SystemMessages(messages)) > maxTokens
    /\ trimmed = SystemMessages(messages)
    /\ Len(trimmed) < Len(messages)

RECURSIVE IsSubsequence(_, _)
IsSubsequence(a, b) ==
    IF a = <<>> THEN TRUE
    ELSE IF b = <<>> THEN FALSE
    ELSE IF Head(a) = Head(b) /\ IsSubsequence(Tail(a), Tail(b)) THEN TRUE
    ELSE IsSubsequence(a, Tail(b))

\* C24: the trimmed list is a subsequence of the input: the messages it keeps
\* are in the same relative order as in the input, also when a system message
\* is not the first element.
C24_NeverReorders ==
    trimPc # "input" => IsSubsequence(trimmed, messages)

\* the suffix of a list that starts after its first i elements
Suffix(l, i) == SubSeq(l, i + 1, Len(l))
FitsWith(sys, non, max) == estimateTokensFromMessages(sys \o non) <= max

\* C25: a list at or under the budget is returned unchanged; otherwise the
\* result holds all system messages and, of the non-system messages, the
\* longest suffix that fits the budget together with them, or none when even
\* the system messages alone do not fit.
C25_LongestFittingSuffix ==
    trimPc # "input" =>
        IF estimateTokensFromMessages(messages) <= maxTokens
        THEN trimmed = messages
        ELSE LET sys == SystemMessages(messages)
                 non == NonSystem(messages)
                 kept == NonSystem(trimmed)
             IN  /\ SystemMessages(trimmed) = sys
                 /\ Len(trimmed) = Len(sys) + Len(kept)
                 /\ \E i \in 0..Len(non) : kept = Suffix(non, i)
                 /\ kept # <<>> => FitsWith(sys, kept, maxTokens)
                 /\ \A j \in 0..Len(non) :
                       FitsWith(sys, Suffix(non, j), maxTokens) =>
                           Len(Suffix(non, j)) <= Len(kept)
C25_Witness ==
    /\ trimPc = "trimmed"
    /\ estimateTokensFromMessages(messages) > maxTokens
    /\ SystemMessages(messages) # <<>>
    /\ NonSystem(trimmed) # <<>>
    /\ Len(NonSystem(trimmed)) < Len(NonSystem(messages))

\* the step in which turn t's drain loop ends and its finally block runs
DrainEnds(t) == pc[t] = "draining" /\ pc'[t] = "saving"

\* C26: the registry entry a turn removes when it finishes draining is the
\* handle this turn registered; an entry that holds another turn's handle is
\* left in place.
C26_RemovesOwnHandleOnly ==
    [][\A t \in Turns :
          DrainEnds(t) =>
              \A id \in ConvIds :
                  activeControllers[id] # t => activeControllers'[id] = activeControllers[id]]_vars

\* C28: once a turn's store write has started, the registry does not hold the
\* turn's handle, and a cancel for its id neither aborts the turn nor, unless
\* another turn has registered under the id, is answered anything but 404.
C28_DeregisteredBeforeWrite ==
    [][\A t \in Turns :
          /\ (pc'[t] = "saving" \/ putResult'[t] # "none") =>
                \A id \in ConvIds : activeControllers'[id] # t
          /\ ((pc[t] = "saving" \/ putResult[t] # "none") /\ handlePostCancel(conv[t])) =>
                /\ aborted'[t] = aborted[t]
                /\ activeControllers[conv[t]] = NoController => lastCancel' = 404]_vars
C28_Witness ==
    \E t \in Turns :
        /\ pc[t] = "saving" /\ lastCancel = 404 /\ ~aborted[t]
        /\ activeControllers[conv[t]] = NoController
        /\ content[t] # <<>>

\* C29: a turn is flagged interrupted only if its own handle was aborted by an
\* accepted cancel; whatever the flag, the end of draining deregisters the id
\* and the one write appends the user message and one assistant message to
\* the loaded transcript.
C29_InterruptedOnlyIfAborted ==
    [][\A t \in Turns :
          /\ isInterrupted'[t] => aborted'[t]
          /\ DrainEnds(t) =>
                /\ activeControllers'[conv[t]] = NoController
                /\ content'[t] = content[t]
          /\ WriteLands(t) =>
                /\ putResult[t] = "none"
                /\ Stored(kv', conv[t]) =
                      history[t] \o <<UserMsg(userMessage[t]),
                                      AiMsg(content[t], isInterrupted[t])>>]_vars
C29_Witness ==
    \E t \in Turns :
        /\ Persisted(t) /\ PersistedAssistant(t).interrupted /\ aborted[t]
        /\ content[t] # <<>>
        /\ Len(Stored(kv, conv[t])) = 2
        /\ activeControllers[conv[t]] = NoController

\* C30: when a read of the internal stream fails with an error that is not an
\* abort, draining stops in that step, the turn is not flagged interrupted,
\* and the write that follows stores an assistant message with exactly the
\* content accumulated before the error.
C30_DrainErrorStillPersists ==
    [][\A t \in Turns :
          /\ (drainRead(t) /\ DrainStep(t) = "error") =>
                /\ pc'[t] = "saving"
                /\ ~isInterrupted'[t]
                /\ content'[t] = content[t]
          /\ (WriteLands(t) /\ src[t] = "error") =>
                /\ ~PersistedAssistant(t)'.interrupted
                /\ PersistedAssistant(t)'.content = content[t]]_vars
C30_Witness ==
    \E t \in Turns :
        /\ src[t] = "error" /\ Persisted(t) /\ ~aborted[t]
        /\ ~PersistedAssistant(t).interrupted
        /\ PersistedAssistant(t).content = content[t] /\ content[t] # <<>>

\* C28 as stated: once a turn's store write has started, every cancel for the
\* turn's id is answered 404.
C28_CancelAfterWriteIs404 ==
    [][\A t \in Turns :
          ((pc[t] = "saving" \/ putResult[t] # "none") /\ handlePostCancel(conv[t])) =>
              lastCancel' = 404]_vars

\* C27: for every turn whose stream was handed to the caller, once the
\* provider stream has ended, failed or been aborted, a store write for the
\* turn is eventually attempted; and as long as a handed-off turn's write
\* attempt has not finished, the task registered with waitUntil is pending.
C27_WriteEventuallyAttempted ==
    /\ [](\A t \in Turns :
             (status[t] = StreamStatus /\ putResult[t] = "none") => waitUntilPending(t))
    /\ \A t \in Turns :
          (pc[t] = "draining" /\ src[t] \in {"closed", "error", "aborted"})
              ~> (putResult[t] # "none")
C27_Witness ==
    \E t \in Turns :
        /\ putResult[t] = "failed" /\ src[t] = "aborted" /\ status[t] = StreamStatus
        /\ ~waitUntilPending(t) /\ delivered[t] # <<>>

\* C33: once a turn's handle has been aborted by a cancel, the turn starts no
\* further model invocation: neither the first one nor the retry.
C33_NoInvocationAfterAbort ==
    [][\A t \in Turns : aborted[t] => invocations'[t] = invocations[t]]_vars

\* C34: no handle stored in the registry is aborted: the cancel that aborts a
\* handle removes its entry in the same step, so that a further cancel for the
\* id finds no entry and is answered 404 until a turn registers again.
C34_RegisteredHandlesUnaborted ==
    [][/\ \A id \in ConvIds :
             activeControllers'[id] # NoController => ~aborted'[activeControllers'[id]]
       /\ \A id \in ConvIds :
             handlePostCancel(id) =>
                 /\ activeControllers'[id] = NoController
                 /\ lastCancel = 200 /\ activeControllers[id] = NoController
                       => lastCancel' = 404]_vars
C34_Witness ==
    \E t, u \in Turns :
        /\ lastCancel = 200 /\ aborted[t] /\ pc[t] = "draining"
        /\ activeControllers[conv[t]] = NoController
        /\ u # t /\ conv[u] \in ConvIds
        /\ activeControllers[conv[u]] = u /\ ~aborted[u]

\* C35: turns on different ids do not touch each other: a cancel for an id
\* changes neither the abort handle of a turn on another id nor the registry
\* entry of another id, and the end of draining and the store write of a turn
\* change neither the registry entry nor the transcript of another id.
C35_IdsIsolated ==
    [][/\ \A id \in ConvIds :
             handlePostCancel(id) =>
                 /\ \A t \in Turns : conv[t] # id => aborted'[t] = aborted[t] /\ src'[t] = src[t]
                 /\ \A other \in ConvIds \ {id} :
                       activeControllers'[other] = activeControllers[other]
       /\ \A t \in Turns :
             (DrainEnds(t) \/ pc[t] = "saving") =>
                 \A other \in ConvIds \ {conv[t]} :
                     /\ pc'[t] # pc[t] => activeControllers'[other] = activeControllers[other]
                     /\ pc'[t] # pc[t] => kv'[other] = kv[other]]_vars
C35_Witness ==
    /\ conv[1] \in ConvIds /\ conv[2] \in ConvIds /\ conv[1] # conv[2]
    /\ lastCancel = 200 /\ aborted[1] /\ Persisted(1)
    /\ ~aborted[2] /\ pc[2] = "draining" /\ activeControllers[conv[2]] = 2
    /\ kv[conv[2]] = Missing

\* the transcript alternates user, assistant from its first message on, and
\* only its assistant messages have an interrupted field
Alternates(h) ==
    /\ Len(h) % 2 = 0
    /\ \A i \in 1..Len(h) :
          IF i % 2 = 1
          THEN h[i].role = "user" /\ "interrupted" \notin DOMAIN h[i]
          ELSE h[i].role = "assistant"

\* C36: starting from an empty store, every persisted transcript has even
\* length, alternates user, assistant, user, assistant, holds no system
\* message, and only assistant messages carry the interrupted flag.
C36_TranscriptAlternates ==
    \A id \in ConvIds : Alternates(Stored(kv, id))
C36_Witness ==
    \E id \in ConvIds :
        /\ Len(Stored(kv, id)) = 4
        /\ Stored(kv, id)[2].interrupted /\ ~Stored(kv, id)[4].interrupted
        /\ \A t \in Turns : ~concurrent[t]

\* C37: windows start lazily. A chat request for a key without a record, or
\* arriving at least windowSec after the key's windowStart, is allowed and sets
\* windowStart to the request time and count to 1; inside an active window
\* under the max it is allowed and count goes up by one; at or over the max it
\* is rejected and the record keeps its windowStart and count.
C37_LazyWindows ==
    [][\A key \in ClientKeys :
          chatRequest(key) =>
              LET record == rateLimitMap[key]
                  fresh == \/ record = NoRecord
                           \/ now - record.windowStart >= RATE_LIMIT_WINDOW_SEC * MsPerSec
              IN  /\ fresh =>
                        /\ lastRateLimit'.allowed
                        /\ rateLimitMap'[key] = [windowStart |-> now, count |-> 1]
                  /\ ~fresh /\ record.count < maxRequests =>
                        /\ lastRateLimit'.allowed
                        /\ rateLimitMap'[key] =
                               [windowStart |-> record.windowStart, count |-> record.count + 1]
                  /\ ~fresh /\ record.count >= maxRequests =>
                        /\ ~lastRateLimit'.allowed
                        /\ rateLimitMap'[key] = record]_vars

\* a window that started after the clock had moved on has been filled and a
\* request inside it has been rejected
C37_Witness ==
    \E key \in ClientKeys :
        /\ rateLimitMap[key].windowStart >= windowMs
        /\ rateLimitMap[key].count = maxRequests
        /\ now < rateLimitMap[key].windowStart + windowMs
        /\ ~lastRateLimit.allowed

\* C38: only chat requests pass through the rate limiter. Cancel, history and
\* preflight requests leave the rate-limit map and the limiter's last result
\* as they are and are never answered 429; a chat request the limiter rejects
\* is answered 429 with the Retry-After of the limiter and changes neither
\* the registry nor the store nor the number of model invocations.
C38_OnlyChatIsLimited ==
    [][/\ \A id \in ConvIds :
             handlePostCancel(id) =>
                 UNCHANGED <<rateLimitMap, lastRateLimit>> /\ lastCancel' # 429
       /\ \A id \in HistoryIds, getOk \in BOOLEAN :
             handleGetHistory(id, getOk) =>
                 UNCHANGED <<rateLimitMap, lastRateLimit>> /\ lastHistory'.status # 429
       /\ handleOptions =>
             UNCHANGED <<rateLimitMap, lastRateLimit>> /\ lastPreflight' # 429
       /\ \A t \in Turns, key \in ClientKeys :
             fetchChat(t, key) /\ ~lastRateLimit'.allowed =>
                 /\ status'[t] = 429 /\ pc'[t] = "done"
                 /\ RetryAfterHeader(lastRateLimit') = retryAfterSec(key)
                 /\ RetryAfterHeader(lastRateLimit') >= 1
                 /\ UNCHANGED <<activeControllers, kv, invocations, conv, nextUuid>>]_vars

\* a chat request has been answered 429 after a preflight, a cancel and a
\* history request had been answered
C38_Witness ==
    /\ \E t \in Turns : status[t] = 429 /\ pc[t] = "done" /\ invocations[t] = 0
    /\ lastPreflight = 204
    /\ lastCancel # 0
    /\ lastHistory.status # 0

\* C39: for every client key and every configured cap N >= 0, N = 0 included,
\* the key's count, the number of requests allowed in its window, is at most N.
C39_CountWithinCap ==
    \A key \in ClientKeys : rateLimitMap[key].count <= maxRequests

\* C31: for every stored transcript the message list built for a turn, before
\* trimming, starts with a system message, holds every message of the
\* transcript in stored order, none left out, and ends with the new user
\* message; a system message is inserted only if the first entry of the
\* transcript is not already one.
C31_AssembledList ==
    promptPc # "input" =>
        LET n == Len(messagesForAI)
            k == n - 1 - Len(stored)
        IN  /\ n >= 1
            /\ messagesForAI[1].role = "system"
            /\ k \in {0, 1}
            /\ \A i \in 1..Len(stored) :
                  /\ messagesForAI[k + i].role = stored[i].role
                  /\ \/ messagesForAI[k + i].content = stored[i].content
                     \/ /\ stored[i].role = "system"
                        /\ messagesForAI[k + i].content = stored[i].content \o WebSearchNote
            /\ messagesForAI[n].role = "user"
            /\ messagesForAI[n].content = TrimText(lastMsgContent)
            /\ k = 1 => (stored = <<>> \/ stored[1].role # "system")

\* C32: the message list sent to the model, after the trimmer has run, ends
\* with the turn's new user message, whatever the transcript, the length of
\* the user message and the context budget.
C32_SentEndsWithUserMessage ==
    promptPc = "sent" =>
        /\ sentMessages # <<>>
        /\ sentMessages[Len(sentMessages)] = NewUserMessage(lastMsgContent, now)

\* C40: the client never has two chat requests in flight at once, and
\* isProcessing is true exactly while a chat request is in flight, that is
\* while its response is awaited or its response stream is being read.
C40_OneRequestInFlight ==
    /\ \A q, r \in Sends : RequestInFlight(q) /\ RequestInFlight(r) => q = r
    /\ isProcessing <=> \E r \in Sends : RequestInFlight(r)
====
